---- MODULE Spec2Model ----
\* The asynchronous acceptor of interprocess/acceptor.cpp: one owner thread
\* calling the public API, the loop threads started by Listen(), and the
\* platform objects they share (events, pipe instances, the OVERLAPPED record).
EXTENDS Integers, Sequences, FiniteSets, TLC

\* ---------------------------------------------------------------- bounds
\* Clients that may ever attach to a pipe instance.
MaxClients == 2
\* Listen() calls (loop lifetimes) of one Acceptor.
MaxListens == 2

\* Handle values that name no object (lines 15 and 158).
NULL == 0
INVALID_HANDLE_VALUE == 0 - 1

Threads == 1..MaxListens
MaxEndpoints == MaxClients + MaxListens
Endpoints == 1..MaxEndpoints

VARIABLES
  mainpc,                   \* position of the owner thread in the public API
  terminated,               \* std::terminate() was called
  listens,                  \* number of std::thread objects created by Listen()
  listen_thread_,           \* 0: not joinable, t: joinable handle of thread t
  next_pipe_,               \* NULL, INVALID_HANDLE_VALUE or an endpoint
  close_event_,             \* auto-reset event: "unsig", "sig", "closed"
  ov_hEvent,                \* connect_overlap_.hEvent: 0 or the thread whose conn_event it is
  ov_status,                \* connect_overlap_.Internal: "zero", "pending", "ok", "fail"
  new_connection_callback_, \* slot holds a callable
  exception_callback_,
  async_io_callback_,
  pc,                       \* position of each loop thread
  pedding,                  \* local of LinstenInThread
  conn_event,               \* local manual-reset event of each loop thread
  write_event,              \* local auto-reset event of each loop thread
  eptr,                     \* local std::exception_ptr: "null" or the failed call
  created,                  \* pipe instances created so far
  pipe,                     \* state of each pipe instance
  creator,                  \* thread that created each pipe instance
  pipeEv,                   \* event bound to the connect pending on each instance
  attached,                 \* instances a client attached to
  closes,                   \* CloseHandle calls made on each instance
  cbLog,                    \* arguments of the new-connection callback, in order
  connClosed,               \* handed instances released by their connection
  excLog,                   \* arguments of the exception callback, per thread
  afterStop                 \* the last call of the owner that returned was Stop()

vars == <<mainpc, terminated, listens, listen_thread_, next_pipe_, close_event_,
          ov_hEvent, ov_status, new_connection_callback_, exception_callback_,
          async_io_callback_, pc, pedding, conn_event, write_event, eptr,
          created, pipe, creator, pipeEv, attached, closes, cbLog, connClosed,
          excLog, afterStop>>

apiVars == <<mainpc, terminated, listens, listen_thread_>>
slotVars == <<new_connection_callback_, exception_callback_, async_io_callback_>>
localVars == <<pedding, write_event, eptr>>
pipeVars == <<created, pipe, creator, pipeEv, attached, closes, connClosed>>
histVars == <<cbLog, excLog, afterStop>>

Range(s) == {s[i] : i \in DOMAIN s}

\* ------------------------------------------------------- construction
\* Acceptor::Acceptor: next_pipe_(NULL), close_event_ auto-reset and
\* non-signaled, connect_overlap_ zeroed; no thread, no callback.
Init ==
  /\ mainpc = "idle"
  /\ terminated = FALSE
  /\ listens = 0
  /\ listen_thread_ = 0
  /\ next_pipe_ = NULL
  /\ close_event_ = "unsig"
  /\ ov_hEvent = 0
  /\ ov_status = "zero"
  /\ new_connection_callback_ = FALSE
  /\ exception_callback_ = FALSE
  /\ async_io_callback_ = FALSE
  /\ pc = [t \in Threads |-> "unborn"]
  /\ pedding = [t \in Threads |-> FALSE]
  /\ conn_event = [t \in Threads |-> "null"]
  /\ write_event = [t \in Threads |-> "null"]
  /\ eptr = [t \in Threads |-> "null"]
  /\ created = 0
  /\ pipe = [e \in Endpoints |-> "none"]
  /\ creator = [e \in Endpoints |-> 0]
  /\ pipeEv = [e \in Endpoints |-> 0]
  /\ attached = {}
  /\ closes = [e \in Endpoints |-> 0]
  /\ cbLog = <<>>
  /\ connClosed = {}
  /\ excLog = [t \in Threads |-> <<>>]
  /\ afterStop = FALSE

\* ------------------------------------------------- platform primitives
IsOpen(ev) == ev \in {"unsig", "sig"}

\* A ScopeGuard whose body never closes the handle.
CloseEvNever(ev) == ev

\* CloseHandle on an event handle held in a local (ScopeGuard bodies). A
\* guard that was dismissed, or not constructed yet, releases nothing: its
\* event is "null".
CloseEv(ev) ==
  IF IsOpen(ev) THEN "closed"
  ELSE IF ev = "closed" THEN "closed_twice"
  ELSE ev

\* A thread that is running LinstenInThread.
Running(t) == pc[t] \notin {"unborn", "done", "joined"}

\* The instances on which a connect started by thread t is pending
\* (CreateConnectInstance creates the instance and starts its connect).
IssuedBy(t) == {e \in Endpoints : creator[e] = t /\ pipeEv[e] # 0}

\* The connect bound to event object tEv completed: the event is signaled and
\* a thread blocked in the wait on it is released with WAIT_OBJECT_0.
\* A manual-reset event stays signaled.
Completed(tEv, pcf, cev) ==
  IF tEv \in Threads /\ IsOpen(cev[tEv])
    THEN [cev |-> [cev EXCEPT ![tEv] = "sig"],
          pcf |-> IF pcf[tEv] = "blocked" THEN [pcf EXCEPT ![tEv] = "on_conn"] ELSE pcf]
    ELSE [cev |-> cev, pcf |-> pcf]

\* SetEvent(close_event_): an auto-reset event releases one waiting thread and
\* stays non-signaled, or becomes signaled when no thread waits.
SetEventClose(pcf) ==
  IF close_event_ = "closed" THEN {[ce |-> close_event_, pcf |-> pcf]}
  ELSE IF {t \in Threads : pcf[t] = "blocked"} # {}
    THEN {[ce |-> close_event_, pcf |-> [pcf EXCEPT ![t] = "on_stop"]] :
            t \in {u \in Threads : pcf[u] = "blocked"}}
    ELSE {[ce |-> "sig", pcf |-> pcf]}

\* DisconnectNamedPipe(h). A listening instance has its pending connect
\* completed with an error status; a connected instance loses its client;
\* NULL, INVALID_HANDLE_VALUE and closed handles make the call fail.
DisconnectNamedPipe(h, pcf, cev) ==
  IF h \notin Endpoints
     \/ pipe[h] \in {"none", "closed", "disconnected", "handed", "lost"}
    THEN [pipe |-> pipe, pev |-> pipeEv, ov |-> ov_status, cev |-> cev, pcf |-> pcf]
  ELSE IF pipe[h] = "listening"
    THEN LET c == Completed(pipeEv[h], pcf, cev)
         IN [pipe |-> [pipe EXCEPT ![h] = "disconnected"],
             pev |-> [pipeEv EXCEPT ![h] = 0], ov |-> "fail",
             cev |-> c.cev, pcf |-> c.pcf]
    ELSE [pipe |-> [pipe EXCEPT ![h] = "disconnected"], pev |-> pipeEv,
          ov |-> ov_status, cev |-> cev, pcf |-> pcf]

\* CloseHandle(h) on a pipe handle.
CloseHandlePipe(h) ==
  IF h \in Endpoints /\ pipe[h] # "none"
    THEN /\ pipe' = [pipe EXCEPT ![h] = "closed"]
         /\ pipeEv' = [pipeEv EXCEPT ![h] = 0]
         /\ closes' = [closes EXCEPT ![h] = IF @ < 2 THEN @ + 1 ELSE @]
    ELSE UNCHANGED <<pipe, pipeEv, closes>>

\* A loop that would start over at line 77 after an exception.
AfterThrowRetry == "create"

\* Where a thread continues when an exception left the try block: the
\* catch(...) of lines 135-137, then the code after it.
AfterThrow == "after_try"


\* A ConnectionExcepton leaves the try block of LinstenInThread: the
\* ScopeGuards that were not dismissed close the two events, catch(...) stores
\* the exception in eptr.
Throw(t, what, pcf, cev) ==
  /\ pc' = [pcf EXCEPT ![t] = AfterThrow]
  /\ eptr' = [eptr EXCEPT ![t] = what]
  /\ pedding' = [pedding EXCEPT ![t] = FALSE]
  /\ conn_event' = [cev EXCEPT ![t] = CloseEv(@)]
  /\ write_event' = [write_event EXCEPT ![t] = CloseEv(@)]

\* ------------------------------------------------------- the public API
\* The three setters assign the slot; cb is a callable (TRUE) or an empty
\* std::function (FALSE). The loop thread reads the slots without
\* synchronisation, so the setters are followed while no loop thread can run
\* (listen_thread_ not joinable).
SetNewConnectionCallback(cb) ==
  /\ ~terminated /\ mainpc = "idle" /\ listen_thread_ = 0
  /\ new_connection_callback_' = cb
  /\ afterStop' = FALSE
  /\ UNCHANGED <<apiVars, next_pipe_, close_event_, ov_hEvent, ov_status,
                 exception_callback_, async_io_callback_, pc, conn_event,
                 localVars, pipeVars, cbLog, excLog>>

SetExceptionCallback(cb) ==
  /\ ~terminated /\ mainpc = "idle" /\ listen_thread_ = 0
  /\ exception_callback_' = cb
  /\ afterStop' = FALSE
  /\ UNCHANGED <<apiVars, next_pipe_, close_event_, ov_hEvent, ov_status,
                 new_connection_callback_, async_io_callback_, pc, conn_event,
                 localVars, pipeVars, cbLog, excLog>>

MoveIOFunctionToAlertableThread(cb) ==
  /\ ~terminated /\ mainpc = "idle" /\ listen_thread_ = 0
  /\ async_io_callback_' = cb
  /\ afterStop' = FALSE
  /\ UNCHANGED <<apiVars, next_pipe_, close_event_, ov_hEvent, ov_status,
                 new_connection_callback_, exception_callback_, pc, conn_event,
                 localVars, pipeVars, cbLog, excLog>>

\* The std::thread constructor of Listen(): thread listens+1 starts running
\* LinstenInThread.
Spawned ==
  /\ listens < MaxListens
  /\ listens' = listens + 1
  /\ pc' = [pc EXCEPT ![listens + 1] = "start"]
  /\ afterStop' = FALSE

\* Listen() on an Acceptor whose listen_thread_ is not joinable: the new
\* thread is swapped in, the temporary holds an empty thread.
Listen ==
  /\ ~terminated /\ mainpc = "idle" /\ listen_thread_ = 0
  /\ Spawned
  /\ listen_thread_' = listens + 1
  /\ UNCHANGED <<mainpc, terminated, next_pipe_, close_event_, ov_hEvent,
                 ov_status, slotVars, conn_event, localVars, pipeVars, cbLog,
                 excLog>>

\* Listen() on an Acceptor whose listen_thread_ is joinable: the new thread is
\* constructed and runs, ...
ListenWhileJoinable ==
  /\ ~terminated /\ mainpc = "idle" /\ listen_thread_ # 0
  /\ Spawned
  /\ mainpc' = "listen_swap"
  /\ UNCHANGED <<terminated, listen_thread_, next_pipe_, close_event_,
                 ov_hEvent, ov_status, slotVars, conn_event, localVars,
                 pipeVars, cbLog, excLog>>

\* ... then swap() puts the joinable old thread into the temporary, whose
\* destructor calls std::terminate().
ListenSwap ==
  /\ ~terminated /\ mainpc = "listen_swap"
  /\ listen_thread_' = listens
  /\ terminated' = TRUE
  /\ UNCHANGED <<mainpc, listens, next_pipe_, close_event_, ov_hEvent,
                 ov_status, slotVars, pc, conn_event, localVars, pipeVars,
                 histVars>>

\* Stop(), line 32: SetEvent(close_event_).
StopSetEvent ==
  /\ ~terminated /\ mainpc = "idle"
  /\ \E o \in SetEventClose(pc) :
       /\ close_event_' = o.ce
       /\ pc' = o.pcf
  /\ mainpc' = "stop_disc"
  /\ UNCHANGED <<terminated, listens, listen_thread_, next_pipe_, ov_hEvent,
                 ov_status, slotVars, conn_event, localVars, pipeVars, histVars>>

\* ~Acceptor(), line 21: the Stop() it calls, line 32. On a joinable thread
\* handle that Stop() is the Stop() above; the destructor is followed from the
\* states where the handle is not joinable.
DtorStopSetEvent ==
  /\ ~terminated /\ mainpc = "idle" /\ listen_thread_ = 0
  /\ \E o \in SetEventClose(pc) :
       /\ close_event_' = o.ce
       /\ pc' = o.pcf
  /\ mainpc' = "dtor_disc"
  /\ afterStop' = FALSE
  /\ UNCHANGED <<terminated, listens, listen_thread_, next_pipe_, ov_hEvent,
                 ov_status, slotVars, conn_event, localVars, pipeVars, cbLog,
                 excLog>>

\* Stop(), line 33: DisconnectNamedPipe(next_pipe_), next_pipe_ read by the
\* caller's thread.
StopDisconnect ==
  /\ ~terminated /\ mainpc \in {"stop_disc", "dtor_disc"}
  /\ LET d == DisconnectNamedPipe(next_pipe_, pc, conn_event)
     IN /\ pipe' = d.pipe
        /\ pipeEv' = d.pev
        /\ ov_status' = d.ov
        /\ conn_event' = d.cev
        /\ pc' = d.pcf
  /\ mainpc' = IF mainpc = "stop_disc" THEN "stop_join" ELSE "dtor_join"
  /\ UNCHANGED <<terminated, listens, listen_thread_, next_pipe_, close_event_,
                 ov_hEvent, slotVars, localVars, created, creator, attached,
                 closes, connClosed, histVars>>

\* The locals of a thread function that returned, and the record of what that
\* thread did, cease to exist when the thread is joined.
Joined(f, t, v) == IF t = 0 THEN f ELSE [f EXCEPT ![t] = v]

\* Stop(), lines 34-36: join the loop thread if joinable, then return.
StopJoin ==
  /\ ~terminated /\ mainpc \in {"stop_join", "dtor_join"}
  /\ listen_thread_ # 0 => pc[listen_thread_] = "done"
  /\ listen_thread_' = 0
  /\ pc' = Joined(pc, listen_thread_, "joined")
  /\ conn_event' = Joined(conn_event, listen_thread_, "null")
  /\ write_event' = Joined(write_event, listen_thread_, "null")
  /\ eptr' = Joined(eptr, listen_thread_, "null")
  /\ excLog' = Joined(excLog, listen_thread_, <<>>)
  /\ mainpc' = IF mainpc = "stop_join" THEN "idle" ELSE "dtor_pipe"
  /\ afterStop' = (mainpc = "stop_join")
  /\ UNCHANGED <<terminated, listens, next_pipe_, close_event_, ov_hEvent,
                 ov_status, slotVars, pedding, pipeVars, cbLog>>

\* ~Acceptor(), line 22: CloseHandle(next_pipe_).
DtorClosePipe ==
  /\ ~terminated /\ mainpc = "dtor_pipe"
  /\ CloseHandlePipe(next_pipe_)
  /\ mainpc' = "dtor_event"
  /\ UNCHANGED <<terminated, listens, listen_thread_, next_pipe_, close_event_,
                 ov_hEvent, ov_status, slotVars, pc, conn_event, localVars,
                 created, creator, attached, connClosed, histVars>>

\* ~Acceptor(), line 23: CloseHandle(close_event_).
DtorCloseEvent ==
  /\ ~terminated /\ mainpc = "dtor_event"
  /\ close_event_' = "closed"
  /\ mainpc' = "destroyed"
  /\ UNCHANGED <<terminated, listens, listen_thread_, next_pipe_, ov_hEvent,
                 ov_status, slotVars, pc, conn_event, localVars, pipeVars,
                 histVars>>

\* ------------------------------------------------------ the loop thread
\* The ways the two CreateEvent calls of lines 56-73 can end.
CreateEventOutcomes == {"ok", "conn_fail", "write_fail"}

\* LinstenInThread, lines 54-76: create conn_event (manual-reset, initially
\* signaled) and write_event (auto-reset, non-signaled), guard both, bind
\* conn_event to connect_overlap_.
CreateEvents(t) ==
  /\ ~terminated /\ pc[t] = "start"
  /\ \E o \in CreateEventOutcomes :
       CASE o = "ok" ->
              /\ conn_event' = [conn_event EXCEPT ![t] = "sig"]
              /\ write_event' = [write_event EXCEPT ![t] = "unsig"]
              /\ ov_hEvent' = t
              /\ pc' = [pc EXCEPT ![t] = "create"]
              /\ UNCHANGED <<eptr, pedding>>
         [] o = "conn_fail" ->
              \* the guard of conn_event is dismissed, nothing to release
              /\ Throw(t, "CreateEvent", pc, conn_event)
              /\ UNCHANGED ov_hEvent
         [] o = "write_fail" ->
              \* the guard of conn_event releases it while unwinding
              /\ Throw(t, "CreateEvent", pc, [conn_event EXCEPT ![t] = "sig"])
              /\ UNCHANGED ov_hEvent
  /\ UNCHANGED <<apiVars, next_pipe_, close_event_, ov_status, slotVars,
                 pipeVars, histVars>>

\* The assignment to next_pipe_ at line 145 drops the handle value it held
\* without closing it. An instance that no client can attach to any more is
\* then out of the Acceptor's reach for good: it is "handed" when the
\* new-connection callback received it (its connection releases it in its own
\* time) and "lost" otherwise (nobody holds its handle).
Overwritten(p, old) ==
  IF old \in Endpoints /\ p[old] \in {"connected", "disconnected", "closed"}
    THEN [p EXCEPT ![old] = IF old \in Range(cbLog) THEN "handed" ELSE "lost"]
    ELSE p

\* CreateConnectInstance, lines 145-163: next_pipe_ = CreateNamedPipe(...),
\* a ConnectionExcepton when it returned INVALID_HANDLE_VALUE.
CreateNamedPipe(t) ==
  /\ ~terminated /\ pc[t] = "create"
  /\ \/ /\ created < MaxEndpoints
        /\ created' = created + 1
        /\ next_pipe_' = created + 1
        /\ pipe' = [Overwritten(pipe, next_pipe_) EXCEPT ![created + 1] = "fresh"]
        /\ creator' = [creator EXCEPT ![created + 1] = t]
        /\ pc' = [pc EXCEPT ![t] = "connect"]
        /\ UNCHANGED <<eptr, pedding, conn_event, write_event>>
     \/ /\ next_pipe_' = INVALID_HANDLE_VALUE
        /\ pipe' = Overwritten(pipe, next_pipe_)
        /\ Throw(t, "CreateNamedPipe", pc, conn_event)
        /\ UNCHANGED <<created, creator>>
  /\ connClosed' = connClosed \ {next_pipe_}
  /\ closes' = IF next_pipe_ \in Range(cbLog)
                 THEN [closes EXCEPT ![next_pipe_] = 0] ELSE closes
  /\ UNCHANGED <<apiVars, close_event_, ov_hEvent, ov_status, slotVars,
                 pipeEv, attached, histVars>>

\* What ConnectNamedPipe(next_pipe_, &connect_overlap_) reports for an
\* instance in the given state (return value and GetLastError):
\* a fresh or re-usable instance starts listening (ERROR_IO_PENDING), an
\* instance a client attached to reports ERROR_PIPE_CONNECTED, a disconnected
\* instance whose client still holds its end reports ERROR_NO_DATA, anything
\* else is an error. Every call may also fail for a reason of the platform.
ConnectResults(h) ==
  IF h \notin Endpoints THEN {"error"}
  ELSE IF pipe[h] = "fresh" \/ (pipe[h] = "disconnected" /\ h \notin attached)
    THEN {"ERROR_IO_PENDING", "nonzero", "error"}
  ELSE IF pipe[h] = "connected"
    THEN {"ERROR_PIPE_CONNECTED", "ERROR_PIPE_CONNECTED_SetEvent_failed", "error"}
    ELSE {"error"}

\* A connect start that would leave the event of connect_overlap_ as it is.
ResetOnStartNever(cev) == cev

\* The event of connect_overlap_ is set to non-signaled when the overlapped
\* operation is started.
ResetOnStart(cev) ==
  IF ov_hEvent \in Threads /\ IsOpen(cev[ov_hEvent])
    THEN [cev EXCEPT ![ov_hEvent] = "unsig"] ELSE cev

\* CreateConnectInstance, lines 165-198: start the overlapped connect and
\* interpret its immediate result.
ConnectNamedPipe(t) ==
  /\ ~terminated /\ pc[t] = "connect"
  /\ \E r \in ConnectResults(next_pipe_) :
       CASE r = "ERROR_IO_PENDING" ->
              /\ pipe' = [pipe EXCEPT ![next_pipe_] = "listening"]
              /\ pipeEv' = [pipeEv EXCEPT ![next_pipe_] = ov_hEvent]
              /\ ov_status' = "pending"
              /\ conn_event' = ResetOnStart(conn_event)
              /\ pedding' = [pedding EXCEPT ![t] = TRUE]
              /\ pc' = [pc EXCEPT ![t] = "wait"]
              /\ UNCHANGED <<eptr, write_event>>
         [] r = "ERROR_PIPE_CONNECTED" /\ IsOpen(conn_event[ov_hEvent]) ->
              \* SetEvent(connect_overlap_.hEvent) succeeded
              /\ LET c == Completed(ov_hEvent, pc, conn_event)
                 IN /\ conn_event' = c.cev
                    /\ pc' = [c.pcf EXCEPT ![t] = "wait"]
              /\ pedding' = [pedding EXCEPT ![t] = FALSE]
              /\ UNCHANGED <<pipe, pipeEv, ov_status, eptr, write_event>>
         [] OTHER ->
              /\ Throw(t, "ConnectNamedPipe", pc, ResetOnStart(conn_event))
              /\ UNCHANGED <<pipe, pipeEv, ov_status>>
  /\ UNCHANGED <<apiVars, next_pipe_, close_event_, ov_hEvent, slotVars,
                 created, creator, attached, closes, connClosed, histVars>>

\* A wait that would report the stop signal ahead of the other two.
WaitResultStopFirst(t) ==
  IF close_event_ = "sig" THEN "WAIT_OBJECT_2"
  ELSE IF conn_event[t] = "sig" THEN "WAIT_OBJECT_0"
  ELSE IF write_event[t] = "sig" THEN "WAIT_OBJECT_1"
  ELSE "none"

\* WaitForMultipleObjectsEx(3, events, FALSE, INFINITE, TRUE) with
\* events = { conn_event, write_event, close_event_ }: the lowest index of a
\* signaled event, or "none" when the thread has to block.
WaitResult(t) ==
  IF conn_event[t] = "sig" THEN "WAIT_OBJECT_0"
  ELSE IF write_event[t] = "sig" THEN "WAIT_OBJECT_1"
  ELSE IF close_event_ = "sig" THEN "WAIT_OBJECT_2"
  ELSE "none"

\* Lines 80-87: the wait returns at once, consuming an auto-reset event, or
\* the thread blocks.
Wait(t) ==
  /\ ~terminated /\ pc[t] = "wait"
  /\ LET w == WaitResult(t)
     IN /\ pc' = [pc EXCEPT ![t] = CASE w = "WAIT_OBJECT_0" -> "on_conn"
                                      [] w = "WAIT_OBJECT_1" -> "on_write"
                                      [] w = "WAIT_OBJECT_2" -> "on_stop"
                                      [] OTHER -> "blocked"]
        /\ write_event' = IF w = "WAIT_OBJECT_1" THEN [write_event EXCEPT ![t] = "unsig"]
                          ELSE write_event
        /\ close_event_' = IF w = "WAIT_OBJECT_2" THEN "unsig" ELSE close_event_
  /\ UNCHANGED <<apiVars, next_pipe_, ov_hEvent, ov_status, slotVars,
                 conn_event, pedding, eptr, pipeVars, histVars>>

\* The endpoints thread t handed to the new-connection callback and whose
\* connection still holds them.
Held(t) ==
  {e \in Range(cbLog) \cap Endpoints : creator[e] = t /\ e \notin connClosed}

\* Lines 124-125: WAIT_IO_COMPLETION. An overlapped operation of a connection
\* completed and its completion routine ran in the alertable wait (entered
\* or about to be entered); the loop waits again.
WaitIoCompletion(t) ==
  /\ ~terminated /\ pc[t] \in {"wait", "blocked"} /\ Held(t) # {}
  /\ pc' = [pc EXCEPT ![t] = "wait"]
  /\ UNCHANGED <<apiVars, next_pipe_, close_event_, ov_hEvent, ov_status,
                 slotVars, conn_event, localVars, pipeVars, histVars>>

\* Lines 128-132: any other value returned by the wait is an error.
WaitFailed(t) ==
  /\ ~terminated /\ pc[t] = "wait"
  /\ Throw(t, "WaitForMultipleObjectsEx", pc, conn_event)
  /\ UNCHANGED <<apiVars, next_pipe_, close_event_, ov_hEvent, ov_status,
                 slotVars, pipeVars, histVars>>

\* A completion result that reports success whatever the connect did.
GetOverlappedResultAlways == TRUE

\* GetOverlappedResult(next_pipe_, &connect_overlap_, &ret, FALSE): whether
\* the connect recorded in connect_overlap_ completed successfully.
GetOverlappedResult == ov_status = "ok"

\* Where the loop goes after the new-connection callback returned (line 108).
AfterNewConnection == "create"

\* Lines 88-107: connect-ready. A pending connect has its result fetched,
\* failure is fatal; then the new-connection callback is called with
\* next_pipe_ when one is set.
OnConnectReady(t) ==
  /\ ~terminated /\ pc[t] = "on_conn"
  /\ IF pedding[t] /\ ~GetOverlappedResult
       THEN /\ Throw(t, "GetOverlappedResult", pc, conn_event)
            /\ UNCHANGED cbLog
       ELSE /\ IF new_connection_callback_
                 THEN /\ cbLog' = Append(cbLog, next_pipe_)
                      /\ pc' = [pc EXCEPT ![t] = "in_new_cb"]
                 ELSE /\ pc' = [pc EXCEPT ![t] = AfterNewConnection]
                      /\ UNCHANGED cbLog
            /\ UNCHANGED <<eptr, pedding, conn_event, write_event>>
  /\ UNCHANGED <<apiVars, next_pipe_, close_event_, ov_hEvent, ov_status,
                 slotVars, pipeVars, excLog, afterStop>>

\* Line 106-108: new_connection_callback_ returned; re-arm.
NewConnectionCallbackReturn(t) ==
  /\ ~terminated /\ pc[t] = "in_new_cb"
  /\ pc' = [pc EXCEPT ![t] = AfterNewConnection]
  /\ UNCHANGED <<apiVars, next_pipe_, close_event_, ov_hEvent, ov_status,
                 slotVars, conn_event, localVars, pipeVars, histVars>>

\* A loop that would re-arm after the deferred-work callback as well.
AfterAsyncIoRearm == "create"

\* Where the loop goes after the deferred-work case (line 116).
AfterAsyncIo == "wait"

\* Lines 112-116: deferred-work-ready; async_io_callback_ is called when set.
OnWriteReady(t) ==
  /\ ~terminated /\ pc[t] = "on_write"
  /\ pc' = [pc EXCEPT ![t] = IF async_io_callback_ THEN "in_async_cb"
                             ELSE AfterAsyncIo]
  /\ UNCHANGED <<apiVars, next_pipe_, close_event_, ov_hEvent, ov_status,
                 slotVars, conn_event, localVars, pipeVars, histVars>>

AsyncIoCallbackReturn(t) ==
  /\ ~terminated /\ pc[t] = "in_async_cb"
  /\ pc' = [pc EXCEPT ![t] = AfterAsyncIo]
  /\ UNCHANGED <<apiVars, next_pipe_, close_event_, ov_hEvent, ov_status,
                 slotVars, conn_event, localVars, pipeVars, histVars>>

\* A loop that would leave the switch on the stop signal and reach line 139.
AfterStopSignalToCallback == "after_try"

\* Where the thread goes when the wait reported the stop signal: the return
\* statement of line 119 leaves LinstenInThread.
AfterStopSignal == "exit"

\* Lines 118-119: the stop signal; the ScopeGuards release both events.
OnStopSignal(t) ==
  /\ ~terminated /\ pc[t] = "on_stop"
  /\ pc' = [pc EXCEPT ![t] = AfterStopSignal]
  /\ conn_event' = [conn_event EXCEPT ![t] = CloseEv(@)]
  /\ write_event' = [write_event EXCEPT ![t] = CloseEv(@)]
  /\ pedding' = [pedding EXCEPT ![t] = FALSE]
  /\ UNCHANGED <<apiVars, next_pipe_, close_event_, ov_hEvent, ov_status,
                 slotVars, eptr, pipeVars, histVars>>

\* Lines 139-141: after the try block, exception_callback_(eptr) when set.
AfterTry(t) ==
  /\ ~terminated /\ pc[t] = "after_try"
  /\ IF exception_callback_
       THEN /\ excLog' = [excLog EXCEPT ![t] = Append(@, eptr[t])]
            /\ pc' = [pc EXCEPT ![t] = "in_exc_cb"]
       ELSE /\ pc' = [pc EXCEPT ![t] = "exit"]
            /\ UNCHANGED excLog
  /\ UNCHANGED <<apiVars, next_pipe_, close_event_, ov_hEvent, ov_status,
                 slotVars, conn_event, localVars, pipeVars, cbLog, afterStop>>

ExceptionCallbackReturn(t) ==
  /\ ~terminated /\ pc[t] = "in_exc_cb"
  /\ pc' = [pc EXCEPT ![t] = "exit"]
  /\ UNCHANGED <<apiVars, next_pipe_, close_event_, ov_hEvent, ov_status,
                 slotVars, conn_event, localVars, pipeVars, histVars>>

\* LinstenInThread returns (line 119 or line 142) and the thread exits: the
\* system cancels the overlapped operations the thread started that are still
\* pending. A cancelled connect completes with an error status, written to
\* connect_overlap_, and signals the event object it was started with; the
\* instance keeps listening with no operation attached to it.
ThreadExit(t) ==
  /\ ~terminated /\ pc[t] = "exit"
  /\ LET evs == {pipeEv[e] : e \in IssuedBy(t)}
         hit == {u \in evs \cap Threads : IsOpen(conn_event[u])}
     IN /\ pipeEv' = [e \in Endpoints |-> IF e \in IssuedBy(t) THEN 0 ELSE pipeEv[e]]
        /\ ov_status' = IF IssuedBy(t) # {} THEN "fail" ELSE ov_status
        /\ conn_event' = [u \in Threads |-> IF u \in hit THEN "sig" ELSE conn_event[u]]
        /\ pc' = [u \in Threads |->
                    IF u = t THEN "done"
                    ELSE IF u \in hit /\ pc[u] = "blocked" THEN "on_conn"
                    ELSE pc[u]]
  /\ UNCHANGED <<apiVars, next_pipe_, close_event_, ov_hEvent, slotVars,
                 localVars, created, pipe, creator, attached, closes,
                 connClosed, histVars>>

\* Stop() called by a callback that runs on the loop thread: lines 32-33 as
\* for any caller, then listen_thread_.join() on the calling thread itself,
\* which throws std::system_error (resource_deadlock_would_occur). Thrown
\* through the new-connection or deferred-work callback it is caught at line
\* 135; thrown through the exception callback it leaves the thread function
\* and std::terminate() is called.
StopFromCallback(t) ==
  /\ ~terminated /\ pc[t] \in {"in_new_cb", "in_async_cb", "in_exc_cb"}
  /\ listen_thread_ = t
  /\ \E o \in SetEventClose(pc) :
       LET d == DisconnectNamedPipe(next_pipe_, o.pcf, conn_event)
       IN /\ close_event_' = o.ce
          /\ pipe' = d.pipe
          /\ pipeEv' = d.pev
          /\ ov_status' = d.ov
          /\ IF pc[t] = "in_exc_cb"
               THEN /\ terminated' = TRUE
                    /\ pc' = d.pcf
                    /\ conn_event' = d.cev
                    /\ UNCHANGED <<eptr, pedding, write_event>>
               ELSE /\ Throw(t, "join", d.pcf, d.cev)
                    /\ UNCHANGED terminated
  /\ UNCHANGED <<mainpc, listens, listen_thread_, next_pipe_, ov_hEvent,
                 slotVars, created, creator, attached, closes, connClosed,
                 histVars>>

\* ------------------------------------------------------ the environment
\* The clients and the connections act at any time, except within the one
\* statement of Listen() (line 28) between the construction of the new thread
\* and the swap, where only the loop threads are followed.
\* A client opens the pipe: it attaches to an instance that is listening
\* (a pending connect completes successfully) or that was created and has
\* no connect started yet.
ClientConnect(e) ==
  /\ ~terminated /\ mainpc # "listen_swap" /\ pipe[e] \in {"fresh", "listening"}
  /\ Cardinality(attached) < MaxClients
  /\ attached' = attached \cup {e}
  /\ pipe' = [pipe EXCEPT ![e] = "connected"]
  /\ IF pipe[e] = "listening" /\ pipeEv[e] # 0
       THEN LET c == Completed(pipeEv[e], pc, conn_event)
            IN /\ ov_status' = "ok"
               /\ pipeEv' = [pipeEv EXCEPT ![e] = 0]
               /\ conn_event' = c.cev
               /\ pc' = c.pcf
       ELSE UNCHANGED <<ov_status, pipeEv, conn_event, pc>>
  /\ UNCHANGED <<apiVars, next_pipe_, close_event_, ov_hEvent, slotVars,
                 localVars, created, creator, closes, connClosed, histVars>>

\* A connection signals the write event it was handed (deferred work).
ConnectionSetWriteEvent(t) ==
  /\ ~terminated /\ mainpc # "listen_swap" /\ Held(t) # {} /\ write_event[t] = "unsig"
  /\ IF pc[t] = "blocked"
       THEN /\ pc' = [pc EXCEPT ![t] = "on_write"]
            /\ UNCHANGED write_event
       ELSE /\ write_event' = [write_event EXCEPT ![t] = "sig"]
            /\ UNCHANGED pc
  /\ UNCHANGED <<apiVars, next_pipe_, close_event_, ov_hEvent, ov_status,
                 slotVars, conn_event, pedding, eptr, pipeVars, histVars>>

\* The connection an endpoint was handed to releases it. The release is
\* followed while the Acceptor still holds the same handle value in
\* next_pipe_, the only time the Acceptor's code can reach that instance.
ConnectionClose(e) ==
  /\ ~terminated /\ mainpc # "listen_swap" /\ e \in Range(cbLog) /\ e \notin connClosed
  /\ e = next_pipe_
  /\ connClosed' = connClosed \cup {e}
  /\ CloseHandlePipe(e)
  /\ UNCHANGED <<apiVars, next_pipe_, close_event_, ov_hEvent, ov_status,
                 slotVars, pc, conn_event, localVars, created, creator, attached,
                 histVars>>

\* ------------------------------------------------------- specification
LoopStep(t) ==
  \/ CreateEvents(t)
  \/ CreateNamedPipe(t)
  \/ ConnectNamedPipe(t)
  \/ Wait(t)
  \/ WaitIoCompletion(t)
  \/ WaitFailed(t)
  \/ OnConnectReady(t)
  \/ NewConnectionCallbackReturn(t)
  \/ OnWriteReady(t)
  \/ AsyncIoCallbackReturn(t)
  \/ OnStopSignal(t)
  \/ AfterTry(t)
  \/ ExceptionCallbackReturn(t)
  \/ ThreadExit(t)
  \/ StopFromCallback(t)

Next ==
  \/ \E cb \in BOOLEAN : SetNewConnectionCallback(cb)
  \/ \E cb \in BOOLEAN : SetExceptionCallback(cb)
  \/ \E cb \in BOOLEAN : MoveIOFunctionToAlertableThread(cb)
  \/ Listen
  \/ StopSetEvent
  \/ StopDisconnect
  \/ StopJoin
  \/ DtorStopSetEvent
  \/ DtorClosePipe
  \/ DtorCloseEvent
  \/ \E t \in Threads : LoopStep(t)
  \/ \E e \in Endpoints : ClientConnect(e)
  \/ \E t \in Threads : ConnectionSetWriteEvent(t)
  \/ \E e \in Endpoints : ConnectionClose(e)

Spec == Init /\ [][Next]_vars

\* The owner also calls Listen() while listen_thread_ is joinable.
NextAny ==
  \/ Next
  \/ ListenWhileJoinable
  \/ ListenSwap

SpecAny == Init /\ [][NextAny]_vars


\* ------------------------------------------------------------ properties

\* C1: with an exception callback registered, a loop thread that has exited,
\* for whatever reason, has invoked the exception callback exactly once, with
\* the value of eptr: the captured error after a fatal error, the empty value
\* after the stop signal.
C1_ExceptionCallbackOnEveryExit ==
  \A t \in Threads :
    (pc[t] = "done" /\ exception_callback_) => excLog[t] = <<eptr[t]>>

\* C2: the new-connection callback never receives the same endpoint twice,
\* it receives only endpoints a client attached to, and once the loop is back
\* at its wait with the connect-ready event unsignaled, every endpoint of this
\* loop a client attached to has been passed to the callback.
C2_OneCallbackPerAttachedClient ==
  /\ \A i, j \in 1..Len(cbLog) : cbLog[i] = cbLog[j] => i = j
  /\ Range(cbLog) \subseteq attached
  /\ \A t \in Threads :
       (/\ new_connection_callback_
        /\ pc[t] \in {"wait", "blocked"}
        /\ conn_event[t] = "unsig")
       => \A e \in attached : creator[e] = t => e \in Range(cbLog)

\* C2, its case: two clients attached, both were accepted, Stop() returned.
C2_AcceptedThenStopped ==
  /\ new_connection_callback_
  /\ Len(cbLog) >= 2
  /\ Range(cbLog) = attached
  /\ afterStop /\ mainpc = "idle"

\* C3: when no client ever attached, a loop thread that has exited did not
\* exit through the failure of the connect-completion result: Stop() before
\* any connect ends the loop through the stop-signal branch.
C3_StopBeforeConnectExitsCleanly ==
  \A t \in Threads :
    (attached = {} /\ pc[t] = "done") => eptr[t] # "GetOverlappedResult"

\* C4: no endpoint handle is closed twice, and once the Acceptor is destroyed
\* every endpoint it created and did not hand to the new-connection callback
\* has been closed.
C4_EveryEndpointReleasedOnce ==
  /\ \A e \in Endpoints : closes[e] <= 1
  /\ mainpc = "destroyed" =>
       \A e \in 1..created : e \in Range(cbLog) \/ closes[e] = 1

\* The endpoints that await a client.
Awaiting == {e \in Endpoints : pipe[e] = "listening"}

\* C5: never do two endpoints of the Acceptor await a client at the same
\* time, and whenever a loop is at its wait with the connect-ready event
\* unsignaled, the one endpoint that awaits a client is its current endpoint.
C5_SingleAwaitingEndpoint ==
  /\ Cardinality(Awaiting) <= 1
  /\ \A t \in Threads :
       (pc[t] \in {"wait", "blocked"} /\ conn_event[t] = "unsig")
         => Awaiting = {next_pipe_}

\* C6: Stop() called from a callback on the loop thread never joins the loop
\* thread from within itself: no std::system_error of a self-join is raised
\* and the process is not terminated.
C6_ReentrantStopIsSafe ==
  /\ ~terminated
  /\ \A t \in Threads : eptr[t] # "join"

\* C7: a Stop() that directly follows a Stop() changes neither the stop
\* signal, nor the current endpoint and the instances, nor the thread handle.
C7_SecondStopChangesNothing ==
  [][(/\ afterStop
      /\ mainpc' # mainpc
      /\ mainpc' \in {"stop_disc", "stop_join", "idle"})
     => UNCHANGED <<close_event_, next_pipe_, pipe, listen_thread_>>]_vars

\* C8: a thread that captured a failure is at the end of LinstenInThread
\* and stays there: from then on no endpoint is created and no new-connection
\* callback is invoked, and once it is past line 139 the exception callback
\* has received the captured error exactly once if it is registered and
\* nothing has been delivered if it is not.
C8_FailureIsFatalAndDeliveredOnce ==
  /\ [](\A t \in Threads :
          eptr[t] # "null" =>
            /\ pc[t] \in {"after_try", "in_exc_cb", "exit", "done"}
            /\ pc[t] # "after_try" =>
                 excLog[t] = IF exception_callback_ THEN <<eptr[t]>> ELSE <<>>)
  /\ [][\A t \in Threads :
          eptr[t] # "null" =>
            /\ created' = created
            /\ cbLog' = cbLog
            /\ eptr'[t] \in {eptr[t], "null"}
            /\ pc'[t] \notin {"start", "create", "connect", "wait", "blocked",
                              "on_conn", "on_write", "on_stop", "in_new_cb",
                              "in_async_cb"}]_vars

\* C8, its case: after a first accepted client the connect-completion result
\* failed, the loop ended and the registered exception callback received the
\* captured error once.
C8_FailedWithCallback ==
  \E t \in Threads :
    /\ pc[t] = "done" /\ exception_callback_
    /\ eptr[t] = "GetOverlappedResult" /\ excLog[t] = <<eptr[t]>>
    /\ cbLog # <<>>

\* C9: a step of Stop() that reads next_pipe_ and applies DisconnectNamedPipe
\* to it (line 33) is taken only while no loop thread is running.
C9_OnlyLoopThreadTouchesEndpoint ==
  [][(mainpc \in {"stop_disc", "dtor_disc"} /\ mainpc' # mainpc)
     => \A t \in Threads : ~Running(t)]_vars

\* C10: at most one loop thread exists at a time.
C10_AtMostOneLoopThread ==
  Cardinality({t \in Threads : Running(t)}) <= 1

\* C11: on an Acceptor whose Listen() was never called, the destructor and
\* the Stop() it calls apply DisconnectNamedPipe (line 33) and CloseHandle
\* (line 22) only to a handle of an instance that was created, and
\* close_event_ is closed by the last step only.
C11_DestroyUnstartedTouchesOnlyCreatedHandles ==
  [][listens = 0 =>
       /\ (mainpc = "dtor_disc" /\ mainpc' = "dtor_join")
            => next_pipe_ \in 1..created
       /\ (mainpc = "dtor_pipe" /\ mainpc' = "dtor_event")
            => next_pipe_ \in 1..created
       /\ (close_event_ # "closed" /\ close_event_' = "closed")
            => (mainpc = "dtor_event" /\ mainpc' = "destroyed")]_vars

\* C12: when LinstenInThread returns, each event it created has been closed
\* exactly once and an event whose creation failed has not been closed; an
\* event is missing only after a CreateEvent failure, and a thread takes that
\* failure at its start, having created no endpoint and invoked no callback.
C12_EventsReleasedOnceOnEveryExit ==
  /\ [](\A t \in Threads :
          /\ conn_event[t] # "closed_twice" /\ write_event[t] # "closed_twice"
          /\ pc[t] \in {"exit", "done"} =>
               /\ conn_event[t] \in {"closed", "null"}
               /\ write_event[t] \in {"closed", "null"}
               /\ (conn_event[t] = "null" \/ write_event[t] = "null")
                    <=> eptr[t] = "CreateEvent"
               /\ conn_event[t] = "null" => write_event[t] = "null"
          /\ (pc[t] = "start" \/ eptr[t] = "CreateEvent") =>
               /\ \A e \in Endpoints : creator[e] # t
               /\ pc[t] \notin {"in_new_cb", "in_async_cb"})
  /\ [][\A t \in Threads :
          (eptr[t] # "CreateEvent" /\ eptr'[t] = "CreateEvent")
            => pc[t] = "start"]_vars

\* C12, its case: the second CreateEvent failed; the thread returned with the
\* connect-ready event closed and no deferred-work-ready event.
C12_WriteEventCreationFailed ==
  \E t \in Threads :
    /\ pc[t] = "done" /\ eptr[t] = "CreateEvent"
    /\ conn_event[t] = "closed" /\ write_event[t] = "null"

\* The endpoints thread t created, and those of them it passed to the
\* new-connection callback.
Made(t) == {e \in Endpoints : creator[e] = t}
Given(t) == {e \in Range(cbLog) \cap Endpoints : creator[e] = t}

\* C13: with a new-connection callback registered, a loop creates endpoint
\* k+1 only after the k-th callback invocation: it never has created more
\* than one endpoint beyond those it delivered, and while the callback runs
\* the endpoint being delivered is the newest one, no next endpoint exists.
C13_DeliverThenRearm ==
  \A t \in Threads :
    (new_connection_callback_ /\ pc[t] \notin {"unborn", "joined"}) =>
      /\ Cardinality(Made(t)) <= Cardinality(Given(t)) + 1
      /\ pc[t] = "in_new_cb" =>
           /\ Made(t) = Given(t)
           /\ next_pipe_ = cbLog[Len(cbLog)]
           /\ next_pipe_ = created

\* C13, its case: the second accepted endpoint is being delivered.
C13_SecondDelivery ==
  \E t \in Threads :
    pc[t] = "in_new_cb" /\ Cardinality(Given(t)) = 2 /\ pedding[t]

\* C14: a thread whose wait reported the stop signal returns: from then on,
\* until it is joined, it is at the return of LinstenInThread, and no
\* new-connection, deferred-work or exception callback is invoked.
C14_NoCallbackAfterStopObserved ==
  [][\A t \in Threads :
       (pc[t] = "on_stop" \/ (pc[t] \in {"exit", "done"} /\ eptr[t] = "null"))
         => /\ pc'[t] \in {"on_stop", "exit", "done", "joined"}
            /\ cbLog' = cbLog
            /\ excLog'[t] = <<>>
            /\ eptr'[t] = "null"]_vars

\* C14, its case: a loop with all three callbacks registered that delivered a
\* connection has returned on the stop signal.
C14_StoppedWithCallbacksRegistered ==
  \E t \in Threads :
    /\ pc[t] = "done" /\ eptr[t] = "null" /\ Given(t) # {}
    /\ new_connection_callback_ /\ async_io_callback_ /\ exception_callback_

\* C15: whenever the owner is in no call and the thread handle is not
\* joinable (no loop is running, no Stop() is in progress), the stop signal
\* is not signaled.
C15_NoStaleStopSignal ==
  (mainpc = "idle" /\ listen_thread_ = 0) => close_event_ = "unsig"

\* C16: the step of Stop() that applies DisconnectNamedPipe to next_pipe_
\* (line 33) never finds there an endpoint a client attached to or one that
\* was passed to the new-connection callback.
C16_StopDisconnectsOnlyPendingEndpoint ==
  [][(mainpc \in {"stop_disc", "dtor_disc"} /\ mainpc' # mainpc)
       => (next_pipe_ \notin attached /\ next_pipe_ \notin Range(cbLog))]_vars

\* C17: the step that creates an endpoint either yields a handle and goes on
\* to start the connect, or yields INVALID_HANDLE_VALUE and raises; the step
\* that starts the connect ends in one of three ways: pending = true with the
\* instance listening and the connect-ready event non-signaled; pending =
\* false with a client attached and the connect-ready event signaled; a
\* ConnectionExcepton. A connect-ready wake with pending = false raises
\* nothing and, with a callback registered, invokes it with next_pipe_,
\* whatever connect_overlap_ holds.
C17_ConnectStartOutcomes ==
  [][\A t \in Threads :
       /\ (pc[t] = "create" /\ pc'[t] # "create") =>
            \/ /\ next_pipe_' \in Endpoints /\ pipe'[next_pipe_'] = "fresh"
               /\ pc'[t] = "connect" /\ eptr'[t] = "null"
            \/ /\ next_pipe_' = INVALID_HANDLE_VALUE
               /\ pc'[t] = "after_try" /\ eptr'[t] = "CreateNamedPipe"
       /\ (pc[t] = "connect" /\ pc'[t] # "connect") =>
            \/ /\ pc'[t] = "wait" /\ pedding'[t] /\ eptr'[t] = "null"
               /\ pipe'[next_pipe_] = "listening" /\ ov_status' = "pending"
               /\ conn_event'[t] = "unsig"
            \/ /\ pc'[t] = "wait" /\ ~pedding'[t] /\ eptr'[t] = "null"
               /\ next_pipe_ \in attached /\ pipe'[next_pipe_] = "connected"
               /\ conn_event'[t] = "sig"
            \/ /\ pc'[t] = "after_try" /\ eptr'[t] = "ConnectNamedPipe"
       /\ (pc[t] = "on_conn" /\ ~pedding[t] /\ pc'[t] # "on_conn") =>
            /\ eptr'[t] = "null"
            /\ IF new_connection_callback_
                 THEN pc'[t] = "in_new_cb" /\ cbLog' = Append(cbLog, next_pipe_)
                 ELSE pc'[t] = "create" /\ cbLog' = cbLog]_vars

\* C17, its case: the client was already connected when the connect was
\* started, and the callback runs although connect_overlap_ holds no
\* successful completion.
C17_DeliveredWithoutCompletionResult ==
  \E t \in Threads :
    /\ pc[t] = "in_new_cb" /\ ~pedding[t] /\ ov_status # "ok"
    /\ cbLog[Len(cbLog)] = next_pipe_

\* The current endpoint, the pending flags and the connect-completion state.
acceptVars == <<next_pipe_, pedding, ov_hEvent, ov_status, pipe, pipeEv>>

\* C18: next_pipe_ changes only in the step of a loop thread that creates an
\* endpoint, and the value it replaces is not an endpoint of that loop that
\* still awaits its client; pedding changes only where the connect is started
\* (and ceases to exist with the try scope); the deferred-work wake with its
\* callback, the alertable-completion wake and the callback setters leave
\* the current endpoint, the pending flag and the connect-completion state
\* unchanged.
C18_EndpointChangesOnlyOnRearm ==
  [][/\ next_pipe_' # next_pipe_ =>
          \E t \in Threads :
            /\ pc[t] = "create" /\ pc'[t] # "create"
            /\ next_pipe_ \in Made(t) => next_pipe_ \in attached
     /\ \A t \in Threads :
          /\ pedding'[t] # pedding[t] =>
               (pc[t] = "connect" \/ pc'[t] \in {"after_try", "exit"})
          /\ (pc[t] = "on_write" /\ pc'[t] # "on_write") =>
               (pc'[t] \in {"in_async_cb", "wait"} /\ UNCHANGED acceptVars)
          /\ (pc[t] = "in_async_cb" /\ pc'[t] = "wait") => UNCHANGED acceptVars
          /\ (pc[t] = "blocked" /\ pc'[t] = "wait") => UNCHANGED acceptVars
     /\ slotVars' # slotVars => UNCHANGED acceptVars]_vars

\* C18, its case: the deferred-work callback runs while an endpoint awaits
\* its client.
C18_DeferredWorkWhileArmed ==
  \E t \in Threads :
    /\ pc[t] = "in_async_cb" /\ pedding[t]
    /\ next_pipe_ \in Made(t) /\ pipe[next_pipe_] = "listening"

\* The loop threads are scheduled: a thread that can take a step of
\* LinstenInThread eventually takes one (callbacks return, waits return when
\* satisfied). Nothing is assumed of the owner, the clients, the connections.
SpecLive == Init /\ [][Next]_vars /\ \A t \in Threads : WF_vars(LoopStep(t))

\* A deferred-work-ready signal is raised for thread t in this step.
WriteSignalRaised(t) ==
  \/ write_event[t] # "sig" /\ write_event'[t] = "sig"
  \/ pc[t] = "blocked" /\ pc'[t] = "on_write"

InLoop(t) ==
  pc[t] \in {"create", "connect", "wait", "blocked", "on_conn", "on_write",
             "on_stop", "in_new_cb", "in_async_cb"}

\* C20: the event a loop passes to every new-connection callback is its one
\* local write_event, the event of index 1 of its wait: it is open while the
\* loop runs (so during every callback invocation), a connection that was
\* handed an endpoint by loop t signals the event of loop t and nothing else,
\* the event is released only in the step in which the loop leaves the try
\* block, and once a loop that handed it out has left, it is released exactly
\* once even though connections still hold endpoints of that loop (until the
\* thread is joined and its locals are gone).
C20_WriteEventLivesWithLoop ==
  [][\A t \in Threads :
       /\ InLoop(t) => IsOpen(write_event[t])
       /\ (pc[t] = "in_new_cb" /\ pc'[t] # "in_new_cb") =>
            (write_event'[t] = write_event[t] \/ ~InLoop(t)')
       /\ (IsOpen(write_event[t]) /\ ~IsOpen(write_event'[t])) =>
            (InLoop(t) /\ ~InLoop(t)' /\ write_event'[t] = "closed")
       /\ (InLoop(t) /\ ~InLoop(t)') => write_event'[t] = "closed"
       /\ (write_event[t] = "unsig" /\ write_event'[t] = "sig") =>
            (Held(t) # {} /\ InLoop(t)')
       /\ (~InLoop(t) /\ pc[t] # "joined" /\ Given(t) # {}) =>
            write_event[t] = "closed"]_vars

\* A loop called the new-connection callback twice, has ended, and both
\* connections are still alive; the event they were given is released.
C20_ExitedWithLiveConnections ==
  \E t \in Threads :
    /\ pc[t] = "done" /\ Cardinality(Held(t)) >= 2
    /\ write_event[t] = "closed"

====
